---- MODULE Spec2Model ----
(***************************************************************************)
(* Verification model of the cache restore resolver (src/restore.ts) and   *)
(* of the tar / compression command plans (src/local/tar.ts,               *)
(* src/local/cacheUtils.ts).                                               *)
(***************************************************************************)
EXTENDS Integers, Sequences, FiniteSets, TLC

\* ------------------------------------------------------------------------
\* Bounds
\* ------------------------------------------------------------------------
\* largest number of workspaces declared in the cache configuration
MaxWorkspaces == 2
\* number of distinct values utils.randomName() can return
MaxNames == 2
\* number of archive operations one process performs
MaxOps == 2

\* ------------------------------------------------------------------------
\* restore.ts : values
\* ------------------------------------------------------------------------
\* enum CacheHit { Miss, Partial, Full }
Miss == "Miss"
Partial == "Partial"
Full == "Full"
CacheHit == {Miss, Partial, Full}

\* run_helper has not returned yet
NoValue == "NoValue"

\* restoreCache resolves to a key or to undefined
Undefined == "undefined"

\* config.cacheKey, the requested primary key
key == "K1"

\* what the service can answer to restoreCache(paths, key, [config.restoreKey]):
\* nothing, the primary key, the restore key itself, or another key the
\* restore key is a prefix of
ServiceAnswers == {Undefined, "K1", "K0", "K0-older"}

\* JavaScript truthiness of a string | undefined value (if (restoreKey))
Truthy(v) == v # Undefined /\ v # ""

\* steps of run_helper inside the try block whose exception reaches the
\* catch block of run_helper
TrySteps == {"config", "lookup", "restore", "saveState"}

\* steps of run_helper before the try block
PreTrySteps == {"getCacheProvider", "isFeatureAvailable"}

VARIABLES
    pc,                \* position of run() / run_helper()
    featureAvailable,  \* what cacheProvider.cache.isFeatureAvailable() answers
    fullMatch,         \* input require-full-match === "true"
    workspaces,        \* config.workspaces, as the sequence 1..n
    lookupKey,         \* key returned by the lookup-only restoreCache call
    restoreKey,        \* key returned by the real restoreCache call
    w,                 \* index of the next workspace of the pre-clean loop
    cleanFailed,       \* workspaces whose cleanTargetDir threw
    thrown,            \* step whose exception left its statement, or "none"
    reported,          \* number of calls of reportError
    log,               \* calls made to the collaborators, in order
    cacheHit,          \* value returned by run_helper
    outputs            \* the outputs set through core.setOutput

rvars == <<pc, featureAvailable, fullMatch, workspaces, lookupKey, restoreKey,
           w, cleanFailed, thrown, reported, log, cacheHit, outputs>>

VARIABLES
    env,               \* the runner: platform and what the probes find on it
    tarToolProm,       \* prom of lazyInit(getTarTool)
    methodProm,        \* prom of lazyInit(getCompressionMethod)
    tpc,               \* position of the archive operation under way
    op,                \* the operation: "create", "extract" or "list"
    randomName,        \* utils.randomName() of the createTar call
    commands,          \* the plan returned by getCommands
    ran,               \* the invocations execCommands has started, in order
    files,             \* the files that exist
    tarError,          \* message of the error the operation threw, or ""
    opsDone            \* number of operations finished in this process

tvars == <<env, tarToolProm, methodProm, tpc, op, randomName, commands, ran,
           files, tarError, opsDone>>

VARIABLES
    proms,              \* the prom of every lazyInit cell
    runs,              \* how often the function wrapped by a cell was executed
    probeAt,            \* position of the wrapped function that is in flight
    callers,           \* the callers of the memoized functions
    envChanges         \* how often the runner changed under the process

mvars == <<proms, runs, probeAt, callers, envChanges>>

VARIABLES
    calls,             \* the createTar calls that run concurrently
    partial,           \* the files whose writing has not been completed
    seen               \* what the readers of the public name have found

cvars == <<calls, partial, seen>>

\* the variables of the concurrency models
ovars == <<mvars, cvars>>

vars == <<rvars, tvars, ovars>>

Event(e, n) == [ev |-> e, ws |-> n]

\* ------------------------------------------------------------------------
\* local/constants.ts, local/contracts.ts : values
\* ------------------------------------------------------------------------
\* enum ArchiveToolType
GNU == "gnu"
BSD == "bsd"
\* enum CompressionMethod
Gzip == "gzip"
ZstdWithoutLong == "zstd-without-long"
Zstd == "zstd"
\* enum CacheFilename
CacheFilenameGzip == "cache.tgz"
CacheFilenameZstd == "cache.tzst"
\* the intermediate uncompressed tar file of the BSD tar + zstd plans
TarFilename == "cache.tar"
GnuTarPathOnWindows == "C:/Program Files/Git/usr/bin/tar.exe"
SystemTarPathOnWindows == "C:/Windows/System32/tar.exe"

Platforms == {"win32", "darwin", "linux"}
Operations == {"create", "extract", "list"}

\* what `tar --version` and `zstd --quiet --version` can print (trimmed)
TarVersionOutputs == {"", "tar (GNU tar) 1.34", "bsdtar 3.5.2 - libarchive 3.5.2"}
\* ("" also stands for a zstd that cannot be launched: nothing is captured)
ZstdVersionOutputs == {"", "\n", "*** Zstandard CLI v1.5.5 ***"}

\* String.prototype.trim on the outputs above
trim(v) == IF v = "\n" THEN "" ELSE v

\* String.prototype.toLowerCase on the outputs above
toLowerCase(v) ==
    CASE v = "tar (GNU tar) 1.34" -> "tar (gnu tar) 1.34"
      [] v = "*** Zstandard CLI v1.5.5 ***" -> "*** zstandard cli v1.5.5 ***"
      [] OTHER -> v
\* lowerCased.includes('gnu tar')
includesGnuTar(v) == v \in {"tar (gnu tar) 1.34"}

\* io.which(tool) where the tool is on the search path
WhichPath(tool) == "/usr/bin/" \o tool

\* the values utils.randomName() can return
RandomNames == {"r" \o ToString(i) : i \in 1..MaxNames}

\* the folder createTar is given, and the archive extractTar/listTar is given
ArchiveFolder == "/cache"
ArchiveToRead == "/download/archive"
\* process.cwd()
ProcessCwd == "/proc-cwd"

IS_WINDOWS == env.platform = "win32"

\* process.env.GITHUB_WORKSPACE ?? process.cwd()
getWorkingDirectory ==
    IF env.workspaceSet
      THEN (IF IS_WINDOWS THEN "D:\\a\\repo" ELSE "/home/runner/work/repo")
      ELSE ProcessCwd

\* path.join(folder, name) : the platform's separator
pathJoin(folder, name) ==
    IF IS_WINDOWS THEN folder \o "\\" \o name ELSE folder \o "/" \o name

\* posixPath : backslashes become slashes (the only paths with backslashes
\* here are the Windows workspace and the Windows manifest paths)
posixPath(p) ==
    IF p = "D:\\a\\repo" THEN "D:/a/repo"
    ELSE IF \E r \in RandomNames :
               p = ArchiveFolder \o "\\" \o "manifest." \o r \o ".txt"
      THEN LET r == CHOOSE x \in RandomNames :
                       p = ArchiveFolder \o "\\" \o "manifest." \o x \o ".txt"
           IN  ArchiveFolder \o "/" \o "manifest." \o r \o ".txt"
      ELSE p

\* path.posix.join of two paths
posixJoin(a, b) == a \o "/" \o b

\* ------------------------------------------------------------------------
\* cacheUtils.ts / tar.ts : the memoized probes
\* ------------------------------------------------------------------------
Unset == [state |-> "unset", path |-> "", type |-> ""]
RejectedProm == [state |-> "rejected", path |-> "", type |-> ""]
ResolvedTool(path, type) == [state |-> "resolved", path |-> path, type |-> type]
ResolvedValue(v) == [state |-> "resolved", path |-> "", type |-> v]

\* getVersion(app) : the trimmed output, '' when the program cannot be run
getVersion(app) ==
    CASE app = "tar" -> IF env.tarOnPath THEN trim(env.tarVersion) ELSE ""
      [] app = "zstd" -> trim(env.zstdVersion)

\* io.which(tool, false) : '' when the tool is not on the search path
which(tool) ==
    CASE tool = "tar" -> IF env.tarOnPath THEN WhichPath("tar") ELSE ""
      [] tool = "gtar" -> IF env.gtarOnPath THEN WhichPath("gtar") ELSE ""

\* getGnuTarPathOnWindows
getGnuTarPathOnWindows ==
    IF env.gnuTarExists THEN GnuTarPathOnWindows
    ELSE IF includesGnuTar(toLowerCase(getVersion("tar")))
           THEN which("tar") ELSE ""

\* the default branch: { path: await io.which('tar', true), type: GNU }
whichTarOrThrow(type) ==
    IF which("tar") # "" THEN ResolvedTool(which("tar"), type)
                         ELSE RejectedProm

\* the function wrapped by getTarTool, given what getGnuTarPathOnWindows
\* resolved to
getTarToolFrom(gnuTar) ==
    CASE env.platform = "win32" ->
            IF gnuTar # ""
              THEN ResolvedTool(gnuTar, GNU)
            ELSE IF env.systemTarStat = "ENOENT" THEN RejectedProm
            ELSE IF env.systemTarStat = "file"
              THEN ResolvedTool(SystemTarPathOnWindows, BSD)
            ELSE whichTarOrThrow(GNU)
      [] env.platform = "darwin" ->
            IF which("gtar") # "" THEN ResolvedTool(which("gtar"), GNU)
                                  ELSE whichTarOrThrow(BSD)
      [] OTHER -> whichTarOrThrow(GNU)

getTarTool == getTarToolFrom(getGnuTarPathOnWindows)

\* the method chosen by the version of zstd: long-distance matching when
\* zstd is there
getCompressionMethodLong ==
    IF getVersion("zstd") = "" THEN Gzip ELSE Zstd

\* the function wrapped by getCompressionMethod
getCompressionMethod ==
    IF getVersion("zstd") = "" THEN Gzip ELSE ZstdWithoutLong

\* utils.getCacheFileName
utilsGetCacheFileName(compressionMethod) ==
    IF compressionMethod = Gzip THEN CacheFilenameGzip ELSE CacheFilenameZstd

\* isBsdTarZstd with the platform check left out
isBsdTarZstdAnyPlatform(tarPath, compressionMethod) ==
    /\ tarPath.type = BSD
    /\ compressionMethod # Gzip

\* isBsdTarZstd
isBsdTarZstd(tarPath, compressionMethod) ==
    /\ tarPath.type = BSD
    /\ compressionMethod # Gzip
    /\ IS_WINDOWS

\* tar.ts getCacheFileName
getCacheFileName(tarPath, compressionMethod) ==
    IF isBsdTarZstd(tarPath, compressionMethod)
      THEN TarFilename
      ELSE utilsGetCacheFileName(compressionMethod)

\* ------------------------------------------------------------------------
\* tar.ts : the command plan
\* ------------------------------------------------------------------------
Exec(program, args) == [program |-> program, args |-> args]
\* getProgram() answers an Exec or a string[] ("program" in compressionProgram)
NoProgram == ""

getTarProgram(tarPath, args) ==
    Exec(tarPath.path,
         args \o (IF tarPath.type = GNU
                    THEN CASE env.platform = "win32" -> <<"--force-local">>
                           [] env.platform = "darwin" -> <<"--delay-directory-restore">>
                           [] OTHER -> <<>>
                    ELSE <<>>))

getTarCreateArgs(manifestPath, archivePath) ==
    <<"--posix", "-cf", archivePath, "-P", "-C",
      posixPath(getWorkingDirectory), "--files-from", manifestPath>>

\* the extract arguments without the working directory
getTarExtractArgsNoDirectory(tarPath, compressionMethod, archivePath) ==
    <<"-xf",
      IF isBsdTarZstd(tarPath, compressionMethod) THEN TarFilename ELSE archivePath,
      "-P">>

getTarExtractArgs(tarPath, compressionMethod, archivePath) ==
    <<"-xf",
      IF isBsdTarZstd(tarPath, compressionMethod) THEN TarFilename ELSE archivePath,
      "-P", "-C", posixPath(getWorkingDirectory)>>

getTarListArgs(tarPath, compressionMethod, archivePath) ==
    <<"-tf",
      IF isBsdTarZstd(tarPath, compressionMethod)
        THEN TarFilename ELSE posixPath(archivePath),
      "-P">>

getDecompressionProgram(tarPath, compressionMethod, archivePath) ==
    LET BSD_TAR_ZSTD == isBsdTarZstd(tarPath, compressionMethod) IN
    CASE compressionMethod = Zstd ->
            IF BSD_TAR_ZSTD
              THEN Exec("zstd", <<"-d", "--long=30", "--force", "-o", TarFilename, archivePath>>)
            ELSE IF IS_WINDOWS
              THEN Exec(NoProgram, <<"--use-compress-program", "\"zstd -d --long=30\"">>)
            ELSE Exec(NoProgram, <<"--use-compress-program", "unzstd", "--long=30">>)
      [] compressionMethod = ZstdWithoutLong ->
            IF BSD_TAR_ZSTD
              THEN Exec("zstd", <<"-d", "--force", "-o", TarFilename, archivePath>>)
            ELSE IF IS_WINDOWS
              THEN Exec(NoProgram, <<"--use-compress-program", "\"zstd -d\"">>)
            ELSE Exec(NoProgram, <<"--use-compress-program", "unzstd">>)
      [] OTHER -> Exec(NoProgram, <<"-z">>)

getCompressionProgram(tarPath, compressionMethod, archivePath) ==
    LET BSD_TAR_ZSTD == isBsdTarZstd(tarPath, compressionMethod) IN
    CASE compressionMethod = Zstd ->
            IF BSD_TAR_ZSTD
              THEN Exec("zstd", <<"-T0", "--long=30", "--force", "-o", archivePath, TarFilename>>)
            ELSE IF IS_WINDOWS
              THEN Exec(NoProgram, <<"--use-compress-program", "\"zstd -T0 --long=30\"">>)
            ELSE Exec(NoProgram, <<"--use-compress-program", "zstdmt", "--long=30">>)
      [] compressionMethod = ZstdWithoutLong ->
            IF BSD_TAR_ZSTD
              THEN Exec("zstd", <<"-T0", "--force", "-o", archivePath, TarFilename>>)
            ELSE IF IS_WINDOWS
              THEN Exec(NoProgram, <<"--use-compress-program", "\"zstd -T0\"">>)
            ELSE Exec(NoProgram, <<"--use-compress-program", "zstdmt">>)
      [] OTHER -> Exec(NoProgram, <<"-z">>)

\* getCommands(addMethodSpecificTarArgs, getProgram, isCreate)
getCommands(tarProgram, compressionProgram, isCreate) ==
    IF compressionProgram.program # NoProgram
      THEN IF isCreate THEN <<compressionProgram, tarProgram>>
                       ELSE <<tarProgram, compressionProgram>>
      ELSE <<Exec(tarProgram.program, tarProgram.args \o compressionProgram.args)>>

\* the names of createTar
manifestPath(name) == pathJoin(ArchiveFolder, "manifest." \o name \o ".txt")
\* the file tar writes named without the random name
TarTempPathNotRandom(tarPath, method, name) ==
    posixJoin(ArchiveFolder, posixPath(getCacheFileName(tarPath, method)))
TarTempPath(tarPath, method, name) ==
    posixJoin(ArchiveFolder, posixPath(name \o getCacheFileName(tarPath, method)))
ZipTempPath(method, name) ==
    posixJoin(ArchiveFolder, posixPath(name \o utilsGetCacheFileName(method)))
ZipPath(method) ==
    posixJoin(ArchiveFolder, posixPath(utilsGetCacheFileName(method)))

\* the plans of createTar, extractTar and listTar
createCommands(tarPath, method, name) ==
    getCommands(
        getTarProgram(tarPath,
            getTarCreateArgs(posixPath(manifestPath(name)),
                             TarTempPath(tarPath, method, name))),
        getCompressionProgram(tarPath, method, ZipTempPath(method, name)),
        TRUE)

extractCommands(tarPath, method, archivePath) ==
    getCommands(
        getTarProgram(tarPath, getTarExtractArgs(tarPath, method, archivePath)),
        getDecompressionProgram(tarPath, method, archivePath),
        FALSE)

listCommands(tarPath, method, archivePath) ==
    getCommands(
        getTarProgram(tarPath, getTarListArgs(tarPath, method, archivePath)),
        getDecompressionProgram(tarPath, method, archivePath),
        FALSE)

\* ------------------------------------------------------------------------
\* what an invocation reads and writes
\* ------------------------------------------------------------------------
HasArg(cmd, a) == \E i \in 1..Len(cmd.args) : cmd.args[i] = a
\* the argument that follows the flag a
ArgAfter(cmd, a) ==
    cmd.args[(CHOOSE i \in 1..Len(cmd.args) : cmd.args[i] = a) + 1]
LastArg(cmd) == cmd.args[Len(cmd.args)]
\* a relative file name is resolved in the directory the process runs in
ResolveIn(cwd, p) == IF p = TarFilename THEN cwd \o "/" \o p ELSE p

IsZstd(cmd) == cmd.program = "zstd"
IsTar(cmd) == ~IsZstd(cmd)

\* the file an invocation writes, "" when it writes none
Written(cmd, cwd) ==
    IF IsZstd(cmd) THEN ResolveIn(cwd, ArgAfter(cmd, "-o"))
    ELSE IF HasArg(cmd, "-cf") THEN ResolveIn(cwd, ArgAfter(cmd, "-cf"))
    ELSE ""
\* the files an invocation reads
Read(cmd, cwd) ==
    IF IsZstd(cmd) THEN {ResolveIn(cwd, LastArg(cmd))}
    ELSE IF HasArg(cmd, "-cf") THEN {ArgAfter(cmd, "--files-from")}
    ELSE IF HasArg(cmd, "-xf") THEN {ResolveIn(cwd, ArgAfter(cmd, "-xf"))}
    ELSE {ResolveIn(cwd, ArgAfter(cmd, "-tf"))}

\* the directory execCommands runs the invocations in
ExecCwd == IF op = "create" THEN ArchiveFolder ELSE ProcessCwd

\* ------------------------------------------------------------------------
\* restore.ts : run_helper
\* ------------------------------------------------------------------------
RInit ==
    /\ pc = "getCacheProvider"
    /\ featureAvailable \in BOOLEAN
    /\ fullMatch \in BOOLEAN
    /\ workspaces \in {[i \in 1..n |-> i] : n \in 0..MaxWorkspaces}
    /\ lookupKey = NoValue
    /\ restoreKey = NoValue
    /\ w = 1
    /\ cleanFailed = {}
    /\ thrown = "none"
    /\ reported = 0
    /\ log = <<>>
    /\ cacheHit = NoValue
    /\ outputs = [o \in {"partial-hit", "cache-hit"} |-> "unset"]

\* return v from run_helper : run() goes on with setCacheHitOutput
Return(v) ==
    /\ cacheHit' = v
    /\ pc' = "setCacheHitOutput"

\* an exception raised outside the try block rejects run_helper's promise and
\* with it the promise of run(), which nobody awaits
Reject(step) ==
    /\ thrown' = step
    /\ pc' = "rejected"
    /\ UNCHANGED <<cacheHit, reported, log>>

\* the catch block without the call of reportError
CaughtUnreported(step, made) ==
    /\ thrown' = step
    /\ reported' = reported
    /\ log' = log \o made
    /\ Return(Miss)

\* the catch block throwing the exception on
CaughtRethrown(step, made) ==
    /\ thrown' = step
    /\ pc' = "rejected"
    /\ log' = log \o made
    /\ UNCHANGED <<cacheHit, reported>>

\* catch (e) { reportError(e); return CacheHit.Miss }
\* (made: the collaborator calls the throwing statement made before it threw)
Caught(step, made) ==
    /\ thrown' = step
    /\ reported' = reported + 1
    /\ log' = Append(log \o made, Event("reportError", 0))
    /\ Return(Miss)

\* const cacheProvider = getCacheProvider();
GetCacheProvider ==
    /\ pc = "getCacheProvider"
    /\ \/ /\ pc' = "isFeatureAvailable"
          /\ UNCHANGED <<thrown, cacheHit, reported, log>>
       \/ Reject("getCacheProvider")
    /\ UNCHANGED <<featureAvailable, fullMatch, workspaces, lookupKey,
                   restoreKey, w, cleanFailed, outputs>>
    /\ UNCHANGED tvars
    /\ UNCHANGED ovars

\* the feature check ignored
FeatureGateIgnored(available) == "try"

\* if (!cacheProvider.cache.isFeatureAvailable()) return CacheHit.Miss;
FeatureGate(available) == IF ~available THEN "return" ELSE "try"

IsFeatureAvailable ==
    /\ pc = "isFeatureAvailable"
    /\ \/ /\ FeatureGate(featureAvailable) = "return"
          /\ Return(Miss)
          /\ UNCHANGED <<thrown, reported, log>>
       \/ /\ FeatureGate(featureAvailable) = "try"
          /\ pc' = "config"
          /\ UNCHANGED <<thrown, cacheHit, reported, log>>
       \/ Reject("isFeatureAvailable")
    /\ UNCHANGED <<featureAvailable, fullMatch, workspaces, lookupKey,
                   restoreKey, w, cleanFailed, outputs>>
    /\ UNCHANGED tvars
    /\ UNCHANGED ovars

\* reading the inputs, exporting the variables, CacheConfig.new(), printInfo
ReadConfig ==
    /\ pc = "config"
    /\ \/ /\ pc' = "lookup"
          /\ UNCHANGED <<thrown, cacheHit, reported, log>>
       \/ Caught("config", <<>>)
    /\ UNCHANGED <<featureAvailable, fullMatch, workspaces, lookupKey,
                   restoreKey, w, cleanFailed, outputs>>
    /\ UNCHANGED tvars
    /\ UNCHANGED ovars

\* the probe compared with undefined instead of the primary key
LookupRejectsOnlyMiss(full, answer) == full /\ answer = Undefined

\* fullMatch && await restoreCache(..., {lookupOnly: true}) !== key
LookupRejects(full, answer) == full /\ answer # key

\* the condition is false without a call when fullMatch is false (&&)
LookupSkipped ==
    /\ pc = "lookup"
    /\ ~fullMatch
    /\ ~LookupRejects(fullMatch, lookupKey)
    /\ pc' = "restore"
    /\ UNCHANGED <<featureAvailable, fullMatch, workspaces, lookupKey,
                   restoreKey, w, cleanFailed, thrown, reported, log,
                   cacheHit, outputs>>
    /\ UNCHANGED tvars
    /\ UNCHANGED ovars

LookupOnly ==
    /\ pc = "lookup"
    /\ fullMatch
    /\ \/ \E answer \in ServiceAnswers :
             /\ lookupKey' = answer
             /\ log' = Append(log, Event("lookupOnly", 0))
             /\ IF LookupRejects(fullMatch, answer)
                  THEN Return(Miss)
                  ELSE pc' = "restore" /\ UNCHANGED cacheHit
             /\ UNCHANGED <<thrown, reported>>
       \/ /\ Caught("lookup", <<Event("lookupOnly", 0)>>)
          /\ UNCHANGED lookupKey
    /\ UNCHANGED <<featureAvailable, fullMatch, workspaces, restoreKey, w,
                   cleanFailed, outputs>>
    /\ UNCHANGED tvars
    /\ UNCHANGED ovars

\* the two branches of the conditional exchanged
ClassifySwapped(answer) == IF answer = key THEN Partial ELSE Full

\* match ? CacheHit.Full : CacheHit.Partial, with match = restoreKey === key
Classify(answer) == IF answer = key THEN Full ELSE Partial

\* the restore step with the clean and saveState done for every restored key
RestoreAlwaysCleans ==
    /\ pc = "restore"
    /\ \/ \E answer \in ServiceAnswers :
             /\ restoreKey' = answer
             /\ log' = Append(log, Event("restoreCache", 0))
             /\ IF Truthy(answer) THEN pc' = "clean" ELSE pc' = "noCache"
             /\ UNCHANGED <<thrown, reported, cacheHit>>
       \/ /\ Caught("restore", <<Event("restoreCache", 0)>>)
          /\ UNCHANGED restoreKey
    /\ UNCHANGED <<featureAvailable, fullMatch, workspaces, lookupKey, w,
                   cleanFailed, outputs>>
    /\ UNCHANGED tvars
    /\ UNCHANGED ovars

\* const restoreKey = await restoreCache(paths, key, [config.restoreKey]);
\* if (restoreKey) { if (!match) ... return ... } else ...
Restore ==
    /\ pc = "restore"
    /\ \/ \E answer \in ServiceAnswers :
             /\ restoreKey' = answer
             /\ log' = Append(log, Event("restoreCache", 0))
             /\ IF Truthy(answer)
                  THEN IF Classify(answer) = Full
                         THEN Return(Full)
                         ELSE pc' = "clean" /\ UNCHANGED cacheHit
                  ELSE pc' = "noCache" /\ UNCHANGED cacheHit
             /\ UNCHANGED <<thrown, reported>>
       \/ /\ Caught("restore", <<Event("restoreCache", 0)>>)
          /\ UNCHANGED restoreKey
    /\ UNCHANGED <<featureAvailable, fullMatch, workspaces, lookupKey, w,
                   cleanFailed, outputs>>
    /\ UNCHANGED tvars
    /\ UNCHANGED ovars

\* the loop body with the failure of a clean escalated to the catch block
CleanTargetDirEscalates ==
    /\ pc = "clean"
    /\ w <= Len(workspaces)
    /\ \/ /\ log' = Append(log, Event("cleanTargetDir", workspaces[w]))
          /\ w' = w + 1
          /\ UNCHANGED <<pc, cleanFailed, thrown, reported, cacheHit>>
       \/ /\ Caught("clean", <<Event("cleanTargetDir", workspaces[w])>>)
          /\ cleanFailed' = cleanFailed \cup {workspaces[w]}
          /\ UNCHANGED w
    /\ UNCHANGED <<featureAvailable, fullMatch, workspaces, lookupKey,
                   restoreKey, outputs>>
    /\ UNCHANGED tvars
    /\ UNCHANGED ovars

\* one iteration of  for (const workspace of config.workspaces)
\*   try { await cleanTargetDir(workspace.target, [], true); } catch {}
CleanTargetDir ==
    /\ pc = "clean"
    /\ w <= Len(workspaces)
    /\ \E threw \in BOOLEAN :
          cleanFailed' = IF threw THEN cleanFailed \cup {workspaces[w]}
                                  ELSE cleanFailed
    /\ log' = Append(log, Event("cleanTargetDir", workspaces[w]))
    /\ w' = w + 1
    /\ UNCHANGED <<pc, featureAvailable, fullMatch, workspaces, lookupKey,
                   restoreKey, thrown, reported, cacheHit, outputs>>
    /\ UNCHANGED tvars
    /\ UNCHANGED ovars

\* after the loop: config.saveState(); return CacheHit.Partial
SaveStateMismatch ==
    /\ pc = "clean"
    /\ w > Len(workspaces)
    /\ \/ /\ log' = Append(log, Event("saveState", 0))
          /\ Return(Classify(restoreKey))
          /\ UNCHANGED <<thrown, reported>>
       \/ Caught("saveState", <<>>)
    /\ UNCHANGED <<featureAvailable, fullMatch, workspaces, lookupKey,
                   restoreKey, w, cleanFailed, outputs>>
    /\ UNCHANGED tvars
    /\ UNCHANGED ovars

\* the no-cache branch without config.saveState()
NoCacheFoundNoSave ==
    /\ pc = "noCache"
    /\ Return(Miss)
    /\ UNCHANGED <<featureAvailable, fullMatch, workspaces, lookupKey,
                   restoreKey, w, cleanFailed, outputs, thrown, reported, log>>
    /\ UNCHANGED tvars
    /\ UNCHANGED ovars

\* core.info("No cache found."); config.saveState(); return CacheHit.Miss
NoCacheFound ==
    /\ pc = "noCache"
    /\ \/ /\ log' = Append(log, Event("saveState", 0))
          /\ Return(Miss)
          /\ UNCHANGED <<thrown, reported>>
       \/ Caught("saveState", <<>>)
    /\ UNCHANGED <<featureAvailable, fullMatch, workspaces, lookupKey,
                   restoreKey, w, cleanFailed, outputs>>
    /\ UNCHANGED tvars
    /\ UNCHANGED ovars

\* (cacheHit === CacheHit.X).toString()
BoolToString(b) == IF b THEN "true" ELSE "false"

\* run() : setCacheHitOutput(await run_helper())
SetCacheHitOutput ==
    /\ pc = "setCacheHitOutput"
    /\ outputs' = [outputs EXCEPT !["partial-hit"] = BoolToString(cacheHit = Partial),
                                  !["cache-hit"] = BoolToString(cacheHit = Full)]
    /\ pc' = "done"
    /\ UNCHANGED <<featureAvailable, fullMatch, workspaces, lookupKey,
                   restoreKey, w, cleanFailed, thrown, reported, log, cacheHit>>
    /\ UNCHANGED tvars
    /\ UNCHANGED ovars

\* process.on("uncaughtException", ...) : the rejection of run() is logged
\* with core.error; nothing sets the outputs
UncaughtException ==
    /\ pc = "rejected"
    /\ log' = Append(log, Event("core.error", 0))
    /\ pc' = "uncaught"
    /\ UNCHANGED <<featureAvailable, fullMatch, workspaces, lookupKey,
                   restoreKey, w, cleanFailed, thrown, reported, cacheHit,
                   outputs>>
    /\ UNCHANGED tvars
    /\ UNCHANGED ovars

RNext ==
    \/ GetCacheProvider
    \/ IsFeatureAvailable
    \/ ReadConfig
    \/ LookupSkipped
    \/ LookupOnly
    \/ Restore
    \/ CleanTargetDir
    \/ SaveStateMismatch
    \/ NoCacheFound
    \/ SetCacheHitOutput
    \/ UncaughtException

\* ------------------------------------------------------------------------
\* tar.ts : listTar, extractTar, createTar as steps of one process
\* ------------------------------------------------------------------------
\* the runners: only the probes the platform's branch of getTarTool looks at
\* vary; a tar that is not on the search path prints no version
Envs ==
    {e \in [platform : Platforms, gnuTarExists : BOOLEAN,
            tarVersion : TarVersionOutputs,
            systemTarStat : {"file", "directory", "ENOENT"},
            gtarOnPath : BOOLEAN, tarOnPath : BOOLEAN,
            zstdVersion : ZstdVersionOutputs, workspaceSet : BOOLEAN] :
        /\ e.tarOnPath <=> e.tarVersion # ""
        /\ e.platform # "win32" =>
              (~e.gnuTarExists /\ e.systemTarStat = "ENOENT")
        /\ e.platform # "darwin" => ~e.gtarOnPath
        /\ (e.platform = "darwin" /\ e.tarOnPath) =>
              e.tarVersion = "bsdtar 3.5.2 - libarchive 3.5.2"
        /\ (e.platform = "linux" /\ e.tarOnPath) =>
              e.tarVersion = "tar (GNU tar) 1.34"}

TInit ==
    /\ env \in Envs
    /\ tarToolProm = Unset
    /\ methodProm = Unset
    /\ tpc = "idle"
    /\ op = "none"
    /\ randomName = ""
    /\ commands = <<>>
    /\ ran = <<>>
    /\ files = {ArchiveToRead}
    /\ tarError = ""
    /\ opsDone = 0

\* ------------------------------------------------------------------------
\* cacheUtils.ts lazyInit : the memoized functions and their callers
\* ------------------------------------------------------------------------
\* number of callers of the memoized functions
MaxCallers == 2
\* how often the runner may change while the process runs
MaxEnvChanges == 1

\* the lazyInit cells of cacheUtils.ts and tar.ts
Resolvers == {"getGnuTarPathOnWindows", "getTarTool", "getCompressionMethod",
              "utils.getCacheFileName", "isBsdTarZstd", "getCacheFileName"}
\* the cells called from outside their own module (getGnuTarPathOnWindows
\* is called by getTarTool only)
Called == Resolvers \ {"getGnuTarPathOnWindows"}
Callers == 1..MaxCallers

\* a promise that is not settled yet
PendingProm == [state |-> "pending", path |-> "", type |-> ""]
\* the promise a call of the wrapped function returns
FreshProm == [state |-> "fresh", path |-> "", type |-> ""]
Settled(p) == p.state \in {"resolved", "rejected"}

\* the memoized functions the wrapped function of r awaits, in order
DepsOf(r) ==
    CASE r = "getTarTool" ->
            IF env.platform = "win32" THEN <<"getGnuTarPathOnWindows">> ELSE <<>>
      [] r = "utils.getCacheFileName" -> <<"getCompressionMethod">>
      [] r = "isBsdTarZstd" -> <<"getTarTool", "getCompressionMethod">>
      [] r = "getCacheFileName" ->
            IF proms["isBsdTarZstd"] = ResolvedValue("true")
              THEN <<"isBsdTarZstd">>
              ELSE <<"isBsdTarZstd", "utils.getCacheFileName">>
      [] OTHER -> <<>>

\* what the wrapped function of r settles its promise with, once everything
\* it awaits is resolved
ValueOf(r) ==
    CASE r = "getGnuTarPathOnWindows" -> ResolvedTool(getGnuTarPathOnWindows, "")
      [] r = "getTarTool" ->
            getTarToolFrom(IF env.platform = "win32"
                             THEN proms["getGnuTarPathOnWindows"].path ELSE "")
      [] r = "getCompressionMethod" -> ResolvedValue(getCompressionMethod)
      [] r = "utils.getCacheFileName" ->
            ResolvedValue(utilsGetCacheFileName(proms["getCompressionMethod"].type))
      [] r = "isBsdTarZstd" ->
            ResolvedValue(BoolToString(
                isBsdTarZstd(proms["getTarTool"], proms["getCompressionMethod"].type)))
      [] r = "getCacheFileName" ->
            ResolvedValue(IF proms["isBsdTarZstd"].type = "true"
                            THEN TarFilename
                            ELSE proms["utils.getCacheFileName"].type)

\* the runners of the memoization model
MemoEnvs ==
    {e \in Envs :
        /\ e.workspaceSet
        /\ e.zstdVersion # "\n"
        /\ e.platform = "win32" => (~e.tarOnPath /\ e.systemTarStat # "directory")}

\* a cell that runs the wrapped function again while its promise is pending
lazyInitNoInFlight(p, fn) == IF Settled(p) THEN p ELSE fn

\* a cell that runs the wrapped function again after a rejection
lazyInitRetryRejected(p, fn) ==
    IF p.state \in {"pending", "resolved"} THEN p ELSE fn

\* lazyInit : () => prom = (prom || fn())
lazyInit(prom, fn) == IF prom.state # "unset" THEN prom ELSE fn

\* a call of listTar, extractTar or createTar begins; createTar draws its
\* random name
StartOperation ==
    /\ tpc = "idle"
    /\ opsDone < MaxOps
    /\ \E o \in Operations :
          /\ op' = o
          /\ IF o = "create"
               THEN \E r \in RandomNames : randomName' = r
               ELSE randomName' = ""
    /\ tpc' = "getTarTool"
    /\ commands' = <<>>
    /\ ran' = <<>>
    /\ tarError' = ""
    /\ UNCHANGED <<env, tarToolProm, methodProm, files, opsDone>>
    /\ UNCHANGED rvars
    /\ UNCHANGED ovars

\* await getTarTool() : a rejected promise makes the operation throw
AwaitTarTool ==
    /\ tpc = "getTarTool"
    /\ tarToolProm' = lazyInit(tarToolProm, getTarTool)
    /\ IF tarToolProm'.state = "rejected"
         THEN tpc' = "failed" /\ tarError' = "Unable to locate executable file: tar"
         ELSE tpc' = "getCompressionMethod" /\ UNCHANGED tarError
    /\ UNCHANGED <<env, methodProm, op, randomName, commands, ran, files, opsDone>>
    /\ UNCHANGED rvars
    /\ UNCHANGED ovars

\* await utils.getCompressionMethod()
AwaitCompressionMethod ==
    /\ tpc = "getCompressionMethod"
    /\ methodProm' = lazyInit(methodProm, ResolvedValue(getCompressionMethod))
    /\ tpc' = IF op = "create" THEN "writeManifest" ELSE "getCommands"
    /\ UNCHANGED <<env, tarToolProm, op, randomName, commands, ran, files,
                   tarError, opsDone>>
    /\ UNCHANGED rvars
    /\ UNCHANGED ovars

\* createTar : await fs.writeFile(manifestPath, sourceDirectories.join('\n'))
WriteManifest ==
    /\ tpc = "writeManifest"
    /\ \/ /\ files' = files \cup {posixPath(manifestPath(randomName))}
          /\ tpc' = "getCommands"
          /\ UNCHANGED tarError
       \/ /\ tpc' = "failed"
          /\ tarError' = "writeFile failed"
          /\ UNCHANGED files
    /\ UNCHANGED <<env, tarToolProm, methodProm, op, randomName, commands, ran,
                   opsDone>>
    /\ UNCHANGED rvars
    /\ UNCHANGED ovars

\* const commands = await getCommands(...)
GetCommands ==
    /\ tpc = "getCommands"
    /\ commands' =
          CASE op = "create" ->
                  createCommands(tarToolProm, methodProm.type, randomName)
            [] op = "extract" ->
                  extractCommands(tarToolProm, methodProm.type, ArchiveToRead)
            [] op = "list" ->
                  listCommands(tarToolProm, methodProm.type, ArchiveToRead)
    /\ tpc' = "exec"
    /\ UNCHANGED <<env, tarToolProm, methodProm, op, randomName, ran, files,
                   tarError, opsDone>>
    /\ UNCHANGED rvars
    /\ UNCHANGED ovars

\* the messages of the errors exec() rejects with: a non-zero exit code, or
\* a program that cannot be launched
ExecMessages == {"The process failed with exit code 2",
                 "Unable to locate executable file"}

\* the error rethrown as it was caught
ExecErrorBare(command, message) == message

\* new Error(`${command.program} failed with error: ${error.message}`)
ExecError(command, message) ==
    command.program \o " failed with error: " \o message

\* the loop going on with the next invocation after a failure
ExecCommandContinues ==
    /\ tpc = "exec"
    /\ Len(ran) < Len(commands)
    /\ LET command == commands[Len(ran) + 1] IN
          /\ ran' = Append(ran, command)
          /\ tpc' = IF Len(ran') < Len(commands) THEN "exec"
                    ELSE IF op = "create" THEN "link" ELSE "done"
          /\ \/ /\ Read(command, ExecCwd) \subseteq files
                /\ files' = files \cup
                      (IF Written(command, ExecCwd) = ""
                         THEN {} ELSE {Written(command, ExecCwd)})
                /\ UNCHANGED tarError
             \/ /\ \E message \in ExecMessages :
                      tarError' = ExecError(command, message)
                /\ UNCHANGED files
    /\ UNCHANGED <<env, tarToolProm, methodProm, op, randomName, commands,
                   opsDone>>
    /\ UNCHANGED rvars
    /\ UNCHANGED ovars

\* one iteration of the loop of execCommands: the next invocation is run to
\* its exit; it can exit with zero only if the files it reads exist
ExecCommand ==
    /\ tpc = "exec"
    /\ Len(ran) < Len(commands)
    /\ LET command == commands[Len(ran) + 1] IN
          /\ ran' = Append(ran, command)
          /\ \/ /\ Read(command, ExecCwd) \subseteq files
                /\ files' = files \cup
                      (IF Written(command, ExecCwd) = ""
                         THEN {} ELSE {Written(command, ExecCwd)})
                /\ tpc' = IF Len(ran') < Len(commands) THEN "exec"
                          ELSE IF op = "create" THEN "link" ELSE "done"
                /\ UNCHANGED tarError
             \/ /\ \E message \in ExecMessages :
                      tarError' = ExecError(command, message)
                /\ tpc' = "failed"
                /\ UNCHANGED files
    /\ UNCHANGED <<env, tarToolProm, methodProm, op, randomName, commands,
                   opsDone>>
    /\ UNCHANGED rvars
    /\ UNCHANGED ovars

\* createTar : await fs.link(ZipTempPath, ZipPath)
Link ==
    /\ tpc = "link"
    /\ IF /\ ZipTempPath(methodProm.type, randomName) \in files
          /\ ZipPath(methodProm.type) \notin files
         THEN /\ files' = files \cup {ZipPath(methodProm.type)}
              /\ tpc' = "unlink"
              /\ UNCHANGED tarError
         ELSE /\ tpc' = "failed"
              /\ tarError' = "link failed"
              /\ UNCHANGED files
    /\ UNCHANGED <<env, tarToolProm, methodProm, op, randomName, commands, ran,
                   opsDone>>
    /\ UNCHANGED rvars
    /\ UNCHANGED ovars

\* createTar : await fs.unlink(ZipTempPath)
Unlink ==
    /\ tpc = "unlink"
    /\ files' = files \ {ZipTempPath(methodProm.type, randomName)}
    /\ tpc' = "done"
    /\ UNCHANGED <<env, tarToolProm, methodProm, op, randomName, commands, ran,
                   tarError, opsDone>>
    /\ UNCHANGED rvars
    /\ UNCHANGED ovars

\* the call returned or threw; the process may go on with another operation
FinishOperation ==
    /\ tpc \in {"done", "failed"}
    /\ tpc' = "idle"
    /\ opsDone' = opsDone + 1
    /\ UNCHANGED <<env, tarToolProm, methodProm, op, randomName, commands, ran,
                   files, tarError>>
    /\ UNCHANGED rvars
    /\ UNCHANGED ovars

TNext ==
    \/ StartOperation
    \/ AwaitTarTool
    \/ AwaitCompressionMethod
    \/ WriteManifest
    \/ GetCommands
    \/ ExecCommand
    \/ Link
    \/ Unlink
    \/ FinishOperation

\* ------------------------------------------------------------------------
\* the memoized functions called by several callers
\* ------------------------------------------------------------------------
IdleCaller == [state |-> "idle", r |-> "", found |-> "", seen |-> Unset]

MInit ==
    /\ proms = [r \in Resolvers |-> Unset]
    /\ runs = [r \in Resolvers |-> 0]
    /\ probeAt = [r \in Resolvers |-> 0]
    /\ callers = [c \in Callers |-> IdleCaller]
    /\ envChanges = 0

\* the cells after a call r() : the wrapped function is started exactly when
\* lazyInit does not answer the stored promise
Invoked(r) == lazyInit(proms[r], FreshProm) = FreshProm
Invoke(r) ==
    IF Invoked(r)
      THEN /\ proms' = [proms EXCEPT ![r] = PendingProm]
           /\ runs' = [runs EXCEPT ![r] = @ + 1]
           /\ probeAt' = [probeAt EXCEPT ![r] = 1]
      ELSE UNCHANGED <<proms, runs, probeAt>>

\* caller c calls the memoized function r and awaits the promise it gets
\* (the callers are numbered in the order of their calls)
Call ==
    /\ \E c \in Callers, r \in Called :
          /\ callers[c].state = "idle"
          /\ \A b \in 1..(c - 1) : callers[b].state # "idle"
          /\ Invoke(r)
          /\ callers' = [callers EXCEPT ![c] =
                [state |-> "awaiting", r |-> r, found |-> proms[r].state,
                 seen |-> Unset]]
    /\ UNCHANGED <<envChanges, rvars, tvars, cvars>>

\* the wrapped function of r, in flight, calls the next memoized function
\* it awaits, or goes on after that promise settled
Await ==
    /\ \E r \in Resolvers :
          /\ proms[r].state = "pending"
          /\ probeAt[r] <= Len(DepsOf(r))
          /\ LET d == DepsOf(r)[probeAt[r]] IN
                CASE proms[d].state = "unset" -> Invoke(d)
                  [] proms[d].state = "resolved" ->
                        /\ probeAt' = [probeAt EXCEPT ![r] = @ + 1]
                        /\ UNCHANGED <<proms, runs>>
                  [] proms[d].state = "rejected" ->
                        /\ proms' = [proms EXCEPT ![r] = RejectedProm]
                        /\ UNCHANGED <<runs, probeAt>>
                  [] OTHER -> Invoke(d)
    /\ UNCHANGED <<callers, envChanges, rvars, tvars, cvars>>

\* the wrapped function of r returns or throws: its promise settles
Settle ==
    /\ \E r \in Resolvers :
          /\ proms[r].state = "pending"
          /\ probeAt[r] > Len(DepsOf(r))
          /\ proms' = [proms EXCEPT ![r] = ValueOf(r)]
    /\ UNCHANGED <<runs, probeAt, callers, envChanges, rvars, tvars, cvars>>

\* the promise caller c awaits has settled: c goes on with its result
Observe ==
    /\ \E c \in Callers :
          /\ callers[c].state = "awaiting"
          /\ Settled(proms[callers[c].r])
          /\ callers' = [callers EXCEPT ![c].state = "observed",
                                        ![c].seen = proms[callers[c].r]]
    /\ UNCHANGED <<proms, runs, probeAt, envChanges, rvars, tvars, cvars>>

\* what a step of the job can change on the runner, one at a time
ToolFields == {"gnuTarExists", "systemTarStat", "gtarOnPath", "tarOnPath",
               "zstdVersion"}

\* another step of the job installs or removes a tool
EnvChange ==
    /\ envChanges < MaxEnvChanges
    /\ \E e \in MemoEnvs :
          /\ e.platform = env.platform
          /\ Cardinality({f \in ToolFields : e[f] # env[f]}) = 1
          /\ env' = e
    /\ envChanges' = envChanges + 1
    /\ UNCHANGED <<proms, runs, probeAt, callers, rvars, cvars>>
    /\ UNCHANGED <<tarToolProm, methodProm, tpc, op, randomName, commands, ran,
                   files, tarError, opsDone>>

MNext ==
    \/ Call
    \/ Await
    \/ Settle
    \/ Observe
    \/ EnvChange

\* no caller of the memoized functions
MIdle ==
    /\ proms = [r \in Resolvers |-> Unset]
    /\ runs = [r \in Resolvers |-> 0]
    /\ probeAt = [r \in Resolvers |-> 0]
    /\ callers = [c \in Callers |-> IdleCaller]
    /\ envChanges = 0


\* ------------------------------------------------------------------------
\* tar.ts createTar : several calls under way in the same archive folder
\* ------------------------------------------------------------------------
\* the createTar calls that can be under way at the same time: as many as
\* there are random names
Creators == 1..MaxNames

IdleCall == [cpc |-> "idle", name |-> "", plan |-> <<>>, done |-> 0,
             running |-> FALSE, error |-> ""]

\* the names the finished archive can have in the archive folder
PublicNames == {ZipPath(Gzip), ZipPath(Zstd)}

\* what a process that opens the public name finds there
PublicState(fs, unfinished) ==
    IF PublicNames \cap fs = {} THEN "absent"
    ELSE IF PublicNames \cap unfinished # {} THEN "partial"
    ELSE "complete"

CInit ==
    /\ calls = [c \in Creators |-> IdleCall]
    /\ partial = {}
    /\ seen = {}

\* createTar is called: it draws its random name (crypto.randomBytes(12):
\* no two calls draw the same one) and awaits the file names, which
\* resolves the tar tool and the compression method
CStart ==
    /\ \E c \in Creators :
          /\ calls[c].cpc = "idle"
          /\ \A b \in 1..(c - 1) : calls[b].cpc # "idle"
          /\ tarToolProm' = lazyInit(tarToolProm, getTarTool)
          /\ methodProm' = lazyInit(methodProm, ResolvedValue(getCompressionMethod))
          /\ \E r \in RandomNames \ {calls[b].name : b \in Creators} :
                calls' = [calls EXCEPT ![c] =
                    IF tarToolProm'.state = "rejected"
                      THEN [@ EXCEPT !.cpc = "failed", !.name = r,
                               !.error = "Unable to locate executable file: tar"]
                      ELSE [@ EXCEPT !.cpc = "writeManifest", !.name = r]]
    /\ UNCHANGED <<env, tpc, op, randomName, commands, ran, files, tarError,
                   opsDone, partial, seen>>
    /\ UNCHANGED <<rvars, mvars>>

\* await fs.writeFile(manifestPath, sourceDirectories.join('\n'))
CWriteManifest ==
    /\ \E c \in Creators :
          /\ calls[c].cpc = "writeManifest"
          /\ \/ /\ files' = files \cup {posixPath(manifestPath(calls[c].name))}
                /\ calls' = [calls EXCEPT ![c].cpc = "getCommands"]
             \/ /\ calls' = [calls EXCEPT ![c].cpc = "failed",
                                          ![c].error = "writeFile failed"]
                /\ UNCHANGED files
    /\ UNCHANGED <<env, tarToolProm, methodProm, tpc, op, randomName, commands,
                   ran, tarError, opsDone, partial, seen>>
    /\ UNCHANGED <<rvars, mvars>>

\* const commands = await getCommands(...)
CGetCommands ==
    /\ \E c \in Creators :
          /\ calls[c].cpc = "getCommands"
          /\ calls' = [calls EXCEPT
                ![c].cpc = "exec",
                ![c].plan = createCommands(tarToolProm, methodProm.type,
                                           calls[c].name)]
    /\ UNCHANGED <<env, tarToolProm, methodProm, tpc, op, randomName, commands,
                   ran, files, tarError, opsDone, partial, seen>>
    /\ UNCHANGED <<rvars, mvars>>

\* execCommands : exec() launches the next invocation of the plan; a program
\* that finds the files it reads opens the file it writes
CSpawn ==
    /\ \E c \in Creators :
          /\ calls[c].cpc = "exec"
          /\ ~calls[c].running
          /\ calls[c].done < Len(calls[c].plan)
          /\ LET command == calls[c].plan[calls[c].done + 1]
                 written == Written(command, ArchiveFolder) IN
                \/ /\ calls' = [calls EXCEPT ![c].running = TRUE]
                   /\ IF Read(command, ArchiveFolder) \subseteq files /\ written # ""
                        THEN /\ files' = files \cup {written}
                             /\ partial' = partial \cup {written}
                        ELSE UNCHANGED <<files, partial>>
                \/ /\ calls' = [calls EXCEPT
                         ![c].cpc = "failed",
                         ![c].error = ExecError(command,
                                         "Unable to locate executable file")]
                   /\ UNCHANGED <<files, partial>>
    /\ UNCHANGED <<env, tarToolProm, methodProm, tpc, op, randomName, commands,
                   ran, tarError, opsDone, seen>>
    /\ UNCHANGED <<rvars, mvars>>

\* execCommands : the invocation exits; with zero only after it has written
\* its file to the end, and a non-zero exit code makes createTar throw
CExit ==
    /\ \E c \in Creators :
          /\ calls[c].cpc = "exec"
          /\ calls[c].running
          /\ LET command == calls[c].plan[calls[c].done + 1]
                 written == Written(command, ArchiveFolder) IN
                \/ /\ written \in partial
                   /\ partial' = partial \ {written}
                   /\ calls' = [calls EXCEPT
                         ![c].running = FALSE,
                         ![c].done = @ + 1,
                         ![c].cpc = IF calls[c].done + 1 < Len(calls[c].plan)
                                      THEN "exec" ELSE "link"]
                \/ /\ calls' = [calls EXCEPT
                         ![c].running = FALSE,
                         ![c].cpc = "failed",
                         ![c].error = ExecError(command,
                                         "The process failed with exit code 2")]
                   /\ UNCHANGED partial
    /\ UNCHANGED <<env, tarToolProm, methodProm, tpc, op, randomName, commands,
                   ran, files, tarError, opsDone, seen>>
    /\ UNCHANGED <<rvars, mvars>>

\* await fs.link(ZipTempPath, ZipPath) : the new name is one more name of
\* the file; the link is refused when ZipPath exists or ZipTempPath does not
CLink ==
    /\ \E c \in Creators :
          /\ calls[c].cpc = "link"
          /\ LET temp == ZipTempPath(methodProm.type, calls[c].name)
                 public == ZipPath(methodProm.type) IN
                IF temp \in files /\ public \notin files
                  THEN /\ files' = files \cup {public}
                       /\ partial' = IF temp \in partial
                                       THEN partial \cup {public} ELSE partial
                       /\ calls' = [calls EXCEPT ![c].cpc = "unlink"]
                  ELSE /\ calls' = [calls EXCEPT ![c].cpc = "failed",
                                                 ![c].error = "link failed"]
                       /\ UNCHANGED <<files, partial>>
    /\ UNCHANGED <<env, tarToolProm, methodProm, tpc, op, randomName, commands,
                   ran, tarError, opsDone, seen>>
    /\ UNCHANGED <<rvars, mvars>>

\* await fs.unlink(ZipTempPath)
CUnlink ==
    /\ \E c \in Creators :
          /\ calls[c].cpc = "unlink"
          /\ LET temp == ZipTempPath(methodProm.type, calls[c].name) IN
                /\ files' = files \ {temp}
                /\ partial' = partial \ {temp}
          /\ calls' = [calls EXCEPT ![c].cpc = "done"]
    /\ UNCHANGED <<env, tarToolProm, methodProm, tpc, op, randomName, commands,
                   ran, tarError, opsDone, seen>>
    /\ UNCHANGED <<rvars, mvars>>

\* another process opens the public name while the calls are under way
ReadPublic ==
    /\ seen' = seen \cup {PublicState(files, partial)}
    /\ seen' # seen
    /\ UNCHANGED <<env, tarToolProm, methodProm, tpc, op, randomName, commands,
                   ran, files, tarError, opsDone, calls, partial>>
    /\ UNCHANGED <<rvars, mvars>>

CNext ==
    \/ CStart
    \/ CWriteManifest
    \/ CGetCommands
    \/ CSpawn
    \/ CExit
    \/ CLink
    \/ CUnlink
    \/ ReadPublic

\* no createTar call
CIdle ==
    /\ calls = [c \in Creators |-> IdleCall]
    /\ partial = {}
    /\ seen = {}

\* ------------------------------------------------------------------------
\* the specifications
\* ------------------------------------------------------------------------
\* no archive operation under way
TIdle ==
    /\ env = CHOOSE e \in Envs : e.platform = "linux" /\ e.tarOnPath
                                   /\ e.zstdVersion # "" /\ e.workspaceSet
    /\ tarToolProm = Unset
    /\ methodProm = Unset
    /\ tpc = "idle"
    /\ op = "none"
    /\ randomName = ""
    /\ commands = <<>>
    /\ ran = <<>>
    /\ files = {ArchiveToRead}
    /\ tarError = ""
    /\ opsDone = 0

\* the restore step not started
RIdle ==
    /\ pc = "getCacheProvider"
    /\ featureAvailable = TRUE
    /\ fullMatch = FALSE
    /\ workspaces = <<>>
    /\ lookupKey = NoValue
    /\ restoreKey = NoValue
    /\ w = 1
    /\ cleanFailed = {}
    /\ thrown = "none"
    /\ reported = 0
    /\ log = <<>>
    /\ cacheHit = NoValue
    /\ outputs = [o \in {"partial-hit", "cache-hit"} |-> "unset"]

Init == RInit /\ TIdle /\ MIdle /\ CIdle
\* the restore step (restore.ts)
Spec == Init /\ [][RNext]_vars

TarInit == RIdle /\ TInit /\ MIdle /\ CIdle
\* the archive operations (local/tar.ts, local/cacheUtils.ts)
TarSpec == TarInit /\ [][TNext]_vars

MemoInit ==
    /\ RIdle
    /\ MInit
    /\ CIdle
    /\ env \in MemoEnvs
    /\ tarToolProm = Unset
    /\ methodProm = Unset
    /\ tpc = "idle"
    /\ op = "none"
    /\ randomName = ""
    /\ commands = <<>>
    /\ ran = <<>>
    /\ files = {ArchiveToRead}
    /\ tarError = ""
    /\ opsDone = 0
\* the memoized functions under several callers (cacheUtils.ts lazyInit)
MemoSpec == MemoInit /\ [][MNext]_vars

CreateInit ==
    /\ RIdle
    /\ MIdle
    /\ CInit
    /\ env \in MemoEnvs
    /\ tarToolProm = Unset
    /\ methodProm = Unset
    /\ tpc = "idle"
    /\ op = "none"
    /\ randomName = ""
    /\ commands = <<>>
    /\ ran = <<>>
    /\ files = {ArchiveToRead}
    /\ tarError = ""
    /\ opsDone = 0
\* createTar calls under way at the same time (local/tar.ts createTar)
CreateSpec == CreateInit /\ [][CNext]_vars


\* ------------------------------------------------------------------------
\* log queries
\* ------------------------------------------------------------------------
Positions(e) == {i \in 1..Len(log) : log[i].ev = e}
Count(e) == Cardinality(Positions(e))
\* workspaces whose clean was attempted, in the order of the attempts
RECURSIVE CleanedFrom(_)
CleanedFrom(i) ==
    IF i > Len(log) THEN <<>>
    ELSE IF log[i].ev = "cleanTargetDir"
           THEN <<log[i].ws>> \o CleanedFrom(i + 1)
           ELSE CleanedFrom(i + 1)
Cleaned == CleanedFrom(1)
\* run_helper has returned (run() is at or past setCacheHitOutput)
Returned == pc \in {"setCacheHitOutput", "done"}
\* the promise of run() was rejected
Rejected == pc \in {"rejected", "uncaught"}
AllFalse == [o \in {"partial-hit", "cache-hit"} |-> "false"]
\* the real restore matched a key that is not the primary key
FallbackMatch == restoreKey \notin {NoValue, Undefined, key}

\* ------------------------------------------------------------------------
\* C1: when a restoreCache call (the lookup-only probe or the real restore)
\* throws, the exception is reported exactly once through reportError, it
\* does not leave run(), run_helper returns Miss and both outputs are set
\* to "false".
C1_RestoreThrowIsMiss ==
    thrown \in {"lookup", "restore"} =>
        /\ ~Rejected
        /\ Returned
        /\ reported = 1
        /\ Count("reportError") = 1
        /\ cacheHit = Miss
        /\ pc = "done" => outputs = AllFalse

C1_Witness ==
    /\ pc = "done"
    /\ thrown = "restore"
    /\ Count("restoreCache") = 1

\* C2 as stated: an exception at any step, the steps before the try block
\* and the pre-clean included, is caught by the top-level handler, reported
\* and turned into Miss, and run() completes with the outputs set.
C2_AnyStepCaught ==
    (thrown # "none" \/ cleanFailed # {}) =>
        /\ ~Rejected
        /\ Returned => (reported = 1 /\ cacheHit = Miss)

\* C2 amended: an exception raised inside the try block outside the
\* pre-clean loop (reading the inputs and building the configuration, the
\* lookup-only probe, the real restore, persisting run state) is caught by
\* the handler of run_helper, reported once and turned into Miss, and run()
\* sets both outputs to "false"; an exception raised before the try block
\* (getCacheProvider, isFeatureAvailable) rejects run() with nothing reported
\* and no output set; a failing clean of a workspace is not reported.
C2_TryStepsCaught ==
    /\ thrown \in TrySteps =>
          /\ ~Rejected
          /\ Returned
          /\ reported = 1
          /\ cacheHit = Miss
          /\ pc = "done" => outputs = AllFalse
    /\ thrown \in PreTrySteps =>
          /\ Rejected
          /\ reported = 0
          /\ cacheHit = NoValue
          /\ \A o \in DOMAIN outputs : outputs[o] = "unset"
    /\ thrown = "none" => reported = 0

C2_Witness ==
    /\ pc = "done"
    /\ thrown = "saveState"
    /\ cleanFailed # {}

\* C3: in a run without exception the outcome is Full iff the real restore
\* returned the primary key, Partial iff it returned another key, Miss
\* otherwise; cache-hit is "true" iff the outcome is Full, partial-hit iff it
\* is Partial, and the two are never both "true".
C3_Classification ==
    (pc = "done" /\ thrown = "none") =>
        /\ cacheHit \in CacheHit
        /\ cacheHit = Full <=> restoreKey = key
        /\ cacheHit = Partial <=> FallbackMatch
        /\ cacheHit = Miss <=> restoreKey \in {NoValue, Undefined}
        /\ outputs["cache-hit"] = "true" <=> cacheHit = Full
        /\ outputs["partial-hit"] = "true" <=> cacheHit = Partial
        /\ ~(outputs["cache-hit"] = "true" /\ outputs["partial-hit"] = "true")
        /\ \A o \in DOMAIN outputs : outputs[o] \in {"true", "false"}

C3_Witness ==
    /\ pc = "done"
    /\ thrown = "none"
    /\ restoreKey = key
    /\ outputs["cache-hit"] = "true"

\* C4: when isFeatureAvailable() answers false, run_helper returns Miss at
\* once: no restoreCache call (lookup-only or real), no pre-clean, no
\* saveState and no reportError.
C4_UnavailableIsMiss ==
    (~featureAvailable /\ thrown = "none") =>
        /\ pc \in {"getCacheProvider", "isFeatureAvailable",
                   "setCacheHitOutput", "done"}
        /\ \A i \in 1..Len(log) :
              log[i].ev \notin {"lookupOnly", "restoreCache", "cleanTargetDir",
                                "saveState", "reportError"}
        /\ reported = 0
        /\ Returned => cacheHit = Miss
        /\ pc = "done" => outputs = AllFalse

C4_Witness ==
    /\ ~featureAvailable
    /\ pc = "done"
    /\ cacheHit = Miss

\* C5: with requireExactMatch, a lookup-only call precedes every real
\* restore call, and a probe answer other than the primary key makes
\* run_helper return Miss without a real restore call; without
\* requireExactMatch no lookup-only call is made.
C5_ExactMatchProbe ==
    /\ fullMatch =>
          \A i \in Positions("restoreCache") :
             \E j \in Positions("lookupOnly") : j < i
    /\ (fullMatch /\ lookupKey \notin {NoValue, key}) =>
          /\ Count("restoreCache") = 0
          /\ restoreKey = NoValue
          /\ Returned
          /\ cacheHit = Miss
    /\ ~fullMatch => (Count("lookupOnly") = 0 /\ lookupKey = NoValue)

C5_Witness ==
    /\ fullMatch
    /\ lookupKey = "K0"
    /\ pc = "done"
    /\ Count("restoreCache") = 0

\* C6 as stated: whenever the feature is available and the service matches
\* no key, with requireExactMatch set or not, the run returns Miss with the
\* run state persisted.
C6_NoMatchPersists ==
    (Returned /\ thrown = "none" /\ featureAvailable
       /\ (lookupKey = Undefined \/ restoreKey = Undefined)) =>
        /\ cacheHit = Miss
        /\ Count("saveState") = 1

\* C6 amended: in a run without exception, whenever the real restore call
\* matches no key, the run returns Miss and saveState was called before it
\* returned (requireExactMatch set or not); when requireExactMatch is set and
\* the lookup-only probe matches no key, the run returns Miss without
\* persisting run state.
C6_NoMatchOfRestorePersists ==
    /\ (Returned /\ thrown = "none" /\ restoreKey = Undefined) =>
          /\ featureAvailable
          /\ cacheHit = Miss
          /\ Count("saveState") = 1
          /\ log[Len(log)].ev = "saveState"
    /\ (Returned /\ thrown = "none" /\ lookupKey = Undefined) =>
          /\ fullMatch
          /\ cacheHit = Miss
          /\ Count("saveState") = 0

C6_Witness ==
    /\ pc = "done"
    /\ fullMatch
    /\ lookupKey = key
    /\ restoreKey = Undefined
    /\ Count("saveState") = 1

\* C7: on a fallback match the clean of every declared workspace is
\* attempted exactly once, in order, also after the clean of an earlier
\* workspace failed; a failing clean is not reported and does not change the
\* outcome; saveState is called only after all the attempts; run_helper
\* returns Partial (unless saveState itself throws).
C7_PreCleanEveryWorkspace ==
    /\ Len(Cleaned) <= Len(workspaces)
    /\ Cleaned = SubSeq(workspaces, 1, Len(Cleaned))
    /\ Cleaned # <<>> => FallbackMatch
    /\ \A i \in Positions("saveState") :
          FallbackMatch =>
             /\ Cleaned = workspaces
             /\ \A j \in Positions("cleanTargetDir") : j < i
    /\ (FallbackMatch /\ thrown # "saveState") =>
          /\ reported = 0
          /\ ~Rejected
          /\ Returned =>
                /\ Cleaned = workspaces
                /\ cacheHit = Partial
                /\ Count("saveState") = 1
          /\ pc = "done" => outputs["partial-hit"] = "true"

C7_Witness ==
    /\ pc = "done"
    /\ FallbackMatch
    /\ Len(workspaces) = 2
    /\ cleanFailed = {1}
    /\ Cleaned = workspaces
    /\ cacheHit = Partial

\* ------------------------------------------------------------------------
\* the plan under way
\* ------------------------------------------------------------------------
\* getCommands has returned the plan of the operation under way
Planned == tpc \in {"exec", "link", "unlink", "done", "failed"} /\ commands # <<>>
ZstdMethods == {Zstd, ZstdWithoutLong}
\* the plan of operation o for a tool of dialect t and method m on this runner
PlanOf(o, t, m) ==
    LET tool == ResolvedTool("tar", t) IN
    CASE o = "create" -> createCommands(tool, m, "r1")
      [] o = "extract" -> extractCommands(tool, m, ArchiveToRead)
      [] o = "list" -> listCommands(tool, m, ArchiveToRead)
\* the tar and the zstd invocation of a two-invocation plan
TarOf(plan) == plan[CHOOSE i \in 1..Len(plan) : IsTar(plan[i])]
ZstdOf(plan) == plan[CHOOSE i \in 1..Len(plan) : IsZstd(plan[i])]
\* the invocation that writes the intermediate tar file, and the one reading it
IsProducer(cmd) == IF op = "create" THEN IsTar(cmd) ELSE IsZstd(cmd)
IsConsumer(cmd) == IF op = "create" THEN IsZstd(cmd) ELSE IsTar(cmd)

\* C8: for every operation, platform, tar dialect and compression method the
\* plan has one or two invocations; it has two iff the tool is BSD tar, the
\* platform is Windows and the method is a zstd variant, and one otherwise.
C8_PlanShape ==
    /\ \A o \in Operations, t \in {GNU, BSD}, m \in {Gzip, Zstd, ZstdWithoutLong} :
          /\ Len(PlanOf(o, t, m)) \in {1, 2}
          /\ Len(PlanOf(o, t, m)) = 2 <=>
                (t = BSD /\ env.platform = "win32" /\ m \in ZstdMethods)
    /\ tpc \in {"exec", "link", "unlink", "done"} => commands # <<>>
    /\ Planned =>
          /\ Len(commands) \in {1, 2}
          /\ Len(commands) = 2 <=>
                /\ tarToolProm.type = BSD
                /\ env.platform = "win32"
                /\ methodProm.type \in ZstdMethods

C8_Witness ==
    /\ Planned
    /\ op = "extract"
    /\ Len(commands) = 2
    /\ tarToolProm.type = BSD
    /\ opsDone = 1

C10_ProducerBeforeConsumer ==
    (Planned /\ Len(commands) = 2) =>
        /\ \A i \in 1..Len(commands) :
              IsConsumer(commands[i]) =>
                 \E j \in 1..(i - 1) : IsProducer(commands[j])
        /\ \A i \in 1..Len(ran) :
              IsConsumer(ran[i]) => \E j \in 1..(i - 1) : IsProducer(ran[j])

\* ------------------------------------------------------------------------
\* C18: with requireExactMatch the outcome is never Partial and no workspace
\* is pre-cleaned, whatever the service answers, also when the real restore
\* answers another key than the lookup-only probe did.
C18_ExactMatchNeverPartial ==
    fullMatch =>
        /\ cacheHit # Partial
        /\ Cleaned = <<>>
        /\ pc # "clean"

\* C19: on a Full outcome no workspace was pre-cleaned, saveState was not
\* called and nothing was reported; a pre-clean happens only after a fallback
\* match, on the path that returns Partial.
C19_FullLeavesNoTrace ==
    /\ cacheHit = Full =>
          /\ restoreKey = key
          /\ Cleaned = <<>>
          /\ cleanFailed = {}
          /\ Count("saveState") = 0
          /\ Count("reportError") = 0
          /\ reported = 0
          /\ log[Len(log)].ev = "restoreCache"
    /\ (Cleaned # <<>> \/ pc = "clean") =>
          /\ FallbackMatch
          /\ cacheHit \in {NoValue, Partial} \/ thrown = "saveState"

C19_Witness ==
    /\ pc = "done"
    /\ cacheHit = Full
    /\ Len(workspaces) = 2
    /\ fullMatch
    /\ Count("lookupOnly") = 1

\* ------------------------------------------------------------------------
\* the executor
\* ------------------------------------------------------------------------
\* execCommands threw: an invocation of the plan failed
ExecFailed ==
    /\ tpc = "failed"
    /\ ran # <<>>
    /\ tarError \notin {"", "link failed"}

\* C11: execCommands runs the invocations in plan order, each only after all
\* earlier ones exited successfully; after the first invocation that fails
\* no other invocation of the plan is started, and the call fails with an
\* error that names the failing program and embeds the underlying message.
C11_SequentialFailFast ==
    [][/\ (ran' # ran /\ ran' # <<>>) =>
              /\ tarError = ""
              /\ Len(ran) < Len(commands)
              /\ ran' = SubSeq(commands, 1, Len(ran) + 1)
       /\ tarError # "" => ran' \in {ran, <<>>}
       /\ (tarError' # "") => (tpc' \in {"failed", "idle"})
       /\ ExecFailed' =>
              \E message \in ExecMessages :
                 tarError' = ran'[Len(ran')].program \o " failed with error: "
                                \o message
       /\ (tpc' \in {"link", "unlink", "done"}) =>
              (ran' = commands /\ tarError' = "")]_vars

C11_Witness ==
    /\ ExecFailed
    /\ Len(commands) = 2
    /\ Len(ran) = 1
    /\ tarError = "C:/Windows/System32/tar.exe failed with error: The process failed with exit code 2"

\* ------------------------------------------------------------------------
\* the arguments that switch long-distance matching on
LongArgs == {"--long=30", "\"zstd -d --long=30\"", "\"zstd -T0 --long=30\""}
\* zstd printed nothing but white space, or could not be launched
ZstdProbeEmpty == env.zstdVersion \in {"", "\n"}

\* C14: the method is Gzip when the zstd version probe yields empty output
\* and ZstdWithoutLong for any other output; Zstd is never selected and no
\* plan carries a --long flag; the archive file name is the gzip name when
\* the method is Gzip and the zstd name otherwise.
C14_MethodSelection ==
    /\ methodProm.state \in {"unset", "resolved"}
    /\ methodProm.state = "resolved" =>
          /\ methodProm.type = (IF ZstdProbeEmpty THEN Gzip ELSE ZstdWithoutLong)
          /\ methodProm.type # Zstd
    /\ \A i \in 1..Len(commands) : \A j \in 1..Len(commands[i].args) :
          commands[i].args[j] \notin LongArgs
    /\ posixJoin(ArchiveFolder, CacheFilenameGzip) \in files =>
          (ZstdProbeEmpty /\ methodProm.type = Gzip)
    /\ posixJoin(ArchiveFolder, CacheFilenameZstd) \in files =>
          (~ZstdProbeEmpty /\ methodProm.type = ZstdWithoutLong)
    /\ tpc \in {"link", "unlink"} =>
          ZipPath(methodProm.type) =
             posixJoin(ArchiveFolder,
                       IF ZstdProbeEmpty THEN CacheFilenameGzip
                                         ELSE CacheFilenameZstd)

C14_Witness ==
    /\ env.zstdVersion = "\n"
    /\ methodProm.type = Gzip
    /\ posixJoin(ArchiveFolder, CacheFilenameGzip) \in files
    /\ tpc = "unlink"

\* ------------------------------------------------------------------------
\* the tar invocation of the plan under way
TarCommand == IF Len(commands) = 2 THEN TarOf(commands) ELSE commands[1]
\* the workspace directory in POSIX form
WorkspaceDirectory ==
    IF ~env.workspaceSet THEN ProcessCwd
    ELSE IF env.platform = "win32" THEN "D:/a/repo"
    ELSE "/home/runner/work/repo"

\* C15 as stated: the tar invocation of every plan, for create, extract and
\* list, carries -P and -C <workspace directory>; a create invocation also
\* carries --posix and --files-from <manifest>.
C15_CommonFlags ==
    Planned =>
        /\ HasArg(TarCommand, "-P")
        /\ HasArg(TarCommand, "-C")
        /\ ArgAfter(TarCommand, "-C") = WorkspaceDirectory
        /\ op = "create" =>
              /\ HasArg(TarCommand, "--posix")
              /\ HasArg(TarCommand, "--files-from")

\* C15 amended: the tar invocation of every plan carries -P; the create and
\* the extract invocation fix the working directory with -C <workspace
\* directory>, the list invocation carries no -C; a create invocation also
\* carries --posix and takes its file list from --files-from <manifest>, the
\* manifest file written by that createTar call.
C15_CommonFlagsButListDirectory ==
    Planned =>
        /\ HasArg(TarCommand, "-P")
        /\ op \in {"create", "extract"} =>
              /\ HasArg(TarCommand, "-C")
              /\ ArgAfter(TarCommand, "-C") = WorkspaceDirectory
        /\ op = "list" => ~HasArg(TarCommand, "-C")
        /\ op = "create" =>
              /\ HasArg(TarCommand, "--posix")
              /\ HasArg(TarCommand, "-cf")
              /\ HasArg(TarCommand, "--files-from")
              /\ ArgAfter(TarCommand, "--files-from") =
                    ArchiveFolder \o "/manifest." \o randomName \o ".txt"
              /\ ArgAfter(TarCommand, "--files-from") \in files
        /\ op # "create" =>
              /\ ~HasArg(TarCommand, "--posix")
              /\ ~HasArg(TarCommand, "--files-from")

C15_Witness ==
    /\ Planned
    /\ op = "extract"
    /\ env.platform = "win32"
    /\ env.workspaceSet
    /\ ArgAfter(TarCommand, "-C") = "D:/a/repo"
    /\ tpc = "done"

\* ------------------------------------------------------------------------
\* a GNU tar was detected on Windows: the known install path exists, or the
\* tar on the search path prints a version that contains "gnu tar"
GnuTarDetected ==
    \/ env.gnuTarExists
    \/ (env.tarOnPath /\ env.tarVersion = "tar (GNU tar) 1.34")

\* C16: on Windows the resolver returns a GNU tool only when a GNU tar was
\* detected, else the system tar as BSD if that path is a regular file, and
\* fails in every other case; on macOS gtar as GNU when present, else tar as
\* BSD; elsewhere tar as GNU, failing when tar is not on the search path.
C16_ToolResolution ==
    tarToolProm.state # "unset" =>
        CASE env.platform = "win32" ->
                IF GnuTarDetected
                  THEN /\ tarToolProm.state = "resolved"
                       /\ tarToolProm.type = GNU
                       /\ tarToolProm.path =
                             (IF env.gnuTarExists THEN GnuTarPathOnWindows
                                                  ELSE WhichPath("tar"))
                ELSE IF env.systemTarStat = "file"
                  THEN tarToolProm = ResolvedTool(SystemTarPathOnWindows, BSD)
                ELSE tarToolProm.state = "rejected"
          [] env.platform = "darwin" ->
                IF env.gtarOnPath
                  THEN tarToolProm = ResolvedTool(WhichPath("gtar"), GNU)
                ELSE IF env.tarOnPath
                  THEN tarToolProm = ResolvedTool(WhichPath("tar"), BSD)
                ELSE tarToolProm.state = "rejected"
          [] OTHER ->
                IF env.tarOnPath
                  THEN tarToolProm = ResolvedTool(WhichPath("tar"), GNU)
                  ELSE tarToolProm.state = "rejected"

\* ------------------------------------------------------------------------
\* C13: the function wrapped by a lazyInit cell (tar tool, compression
\* method, archive file name, BSD-tar-zstd flag) is executed at most once,
\* for any number and interleaving of callers, also for callers that arrive
\* while the first execution is in flight; all callers observe the same
\* result.
C13_SingleFlight ==
    /\ \A r \in Resolvers :
          /\ runs[r] <= 1
          /\ runs[r] = 0 <=> proms[r].state = "unset"
    /\ \A c \in Callers :
          callers[c].state = "observed" =>
             /\ Settled(callers[c].seen)
             /\ callers[c].seen = proms[callers[c].r]
    /\ \A c1, c2 \in Callers :
          (/\ callers[c1].state = "observed"
           /\ callers[c2].state = "observed"
           /\ callers[c1].r = callers[c2].r) =>
             callers[c1].seen = callers[c2].seen

C13_Witness ==
    /\ callers[1].state = "observed"
    /\ callers[2].state = "observed"
    /\ callers[1].r = "isBsdTarZstd"
    /\ callers[2].r = "isBsdTarZstd"
    /\ callers[1].found = "unset"
    /\ callers[2].found = "pending"
    /\ callers[1].seen = ResolvedValue("true")
    /\ envChanges = 1
    /\ runs["getTarTool"] = 1

\* C20: a failure is memoized as well: once the first execution of a wrapped
\* function failed, every later call observes the same failure and the
\* function is not executed again; a settled cell never changes, neither
\* from failed to resolved nor from one value to another.
C20_FailureMemoized ==
    [][/\ \A r \in Resolvers :
             Settled(proms[r]) =>
                (proms'[r] = proms[r] /\ runs'[r] = runs[r])
       /\ \A c \in Callers :
             (callers'[c].state = "observed" /\ callers'[c].found = "rejected") =>
                /\ callers'[c].seen = RejectedProm
                /\ runs'[callers'[c].r] = 1]_vars

C20_Witness ==
    /\ env.platform = "linux"
    /\ env.tarOnPath
    /\ envChanges = 1
    /\ callers[1].r = "getTarTool"
    /\ callers[1].found = "unset"
    /\ callers[1].seen = RejectedProm
    /\ callers[2].r = "getTarTool"
    /\ callers[2].found = "rejected"
    /\ callers[2].state = "observed"
    /\ callers[2].seen = RejectedProm

\* ------------------------------------------------------------------------
\* createTar under concurrent calls
\* ------------------------------------------------------------------------
\* the calls that have their plan
Planning == {c \in Creators : calls[c].plan # <<>>}
\* the calls that have drawn their name and know the method
StartedCalls == {c \in Creators : calls[c].cpc # "idle" /\ methodProm # Unset}
\* the in-progress files of a call: its manifest and what its invocations
\* read and write
TempFiles(c) ==
    {posixPath(manifestPath(calls[c].name))}
      \cup UNION {Read(calls[c].plan[i], ArchiveFolder) :
                    i \in 1..Len(calls[c].plan)}
      \cup {Written(calls[c].plan[i], ArchiveFolder) :
                    i \in 1..Len(calls[c].plan)}

\* the part of C12 that holds in a state
PublicNameIntact(cs, method, fs, unfinished, found) ==
    /\ \A c \in Creators : \A i \in 1..Len(cs[c].plan) :
          Written(cs[c].plan[i], ArchiveFolder) \notin PublicNames
    /\ \A c \in Creators :
          (cs[c].cpc # "idle" /\ method # Unset) =>
              ZipTempPath(method.type, cs[c].name) # ZipPath(method.type)
    /\ PublicState(fs, unfinished) # "partial"
    /\ "partial" \notin found

\* C12: archive creation is atomic with respect to the public name: no
\* invocation of a create plan writes the public name, the temp name differs
\* from the public name, the public name appears only by the link of a call
\* all of whose invocations succeeded, the call then unlinks its temp name,
\* and whatever fails and whoever reads or creates at the same time, the
\* public name is absent or a completely written archive
C12_AtomicPublicName ==
    [][/\ PublicNameIntact(calls', methodProm', files', partial', seen')
       /\ \A p \in PublicNames : (p \notin files /\ p \in files') =>
             \E c \in Creators :
                /\ calls[c].cpc = "link"
                /\ calls'[c].cpc = "unlink"
                /\ calls[c].plan # <<>>
                /\ calls[c].done = Len(calls[c].plan)
                /\ ~calls[c].running
                /\ ZipTempPath(methodProm.type, calls[c].name) \notin partial
       /\ \A c \in Creators :
             (calls[c].cpc = "unlink" /\ calls'[c].cpc # "unlink") =>
                /\ calls'[c].cpc = "done"
                /\ ZipTempPath(methodProm.type, calls[c].name) \notin files'
                /\ ZipPath(methodProm.type) \in files'
       /\ \A p \in PublicNames : p \in files => p \in files'
      ]_vars

\* one call has published the archive, a reader has found it complete, and
\* the other call has failed in an invocation that left a partial file
C12_Witness ==
    /\ \E c \in Creators : calls[c].cpc = "done"
    /\ \E c \in Creators : calls[c].cpc = "failed" /\ calls[c].plan # <<>>
    /\ partial # {}
    /\ PublicState(files, partial) = "complete"
    /\ seen = {"absent", "complete"}

\* C17: two creation calls under way in the same archive folder share no
\* in-progress file: the manifest, the file tar writes, the file the
\* compressor reads and the file it writes of one call differ from those of
\* the other call
C17_NoSharedTempFile ==
    \A c1, c2 \in Planning :
        c1 # c2 => TempFiles(c1) \cap TempFiles(c2) = {}
====
